---- MODULE Spec2Model ----
(***************************************************************************)
(* Model of src/main.py: a FastAPI application with two coroutine path     *)
(* operations, home (GET /) and health (GET /api/health).                  *)
(*                                                                         *)
(* Text is modelled as a sequence of characters, so that str.split and     *)
(* str.strip are computed character by character as Python computes them.  *)
(* Both handlers are declared `async def` and contain no await, so the     *)
(* event loop of the serving process runs one handler at a time, from its  *)
(* dispatch to its return; the only place a handler can stay is the        *)
(* blocking read() of the pipe of an ec2-metadata command.                 *)
(***************************************************************************)
EXTENDS Integers, Sequences, FiniteSets, TLC

VARIABLES hostname, meta, req

vars == <<hostname, meta, req>>

----------------------------------------------------------------------------
(* Bounds *)

\* longest output of an ec2-metadata command, in characters
MaxLen == 4

\* number of HTTP requests a behaviour may hold
NumRequests == 2

----------------------------------------------------------------------------
(* Text *)

NL == "\n"

\* the characters an ec2-metadata command can write
Alphabet == {"a", ":", " ", NL}

\* the characters str.strip() removes
Whitespace == {" ", NL}

\* every text of at most n characters
Strings(n) == UNION {[1..k -> Alphabet] : k \in 0..n}

\* the separator given to split: ': '
Sep == <<":", " ">>

\* the text both fields take when the metadata lookup fails
Sentinel == <<"N/A (not on EC2)">>

\* least index at which sep occurs in s, 0 when it does not occur
Find(s, sep) ==
  LET hits == {i \in 1..(Len(s) - Len(sep) + 1) : SubSeq(s, i, i + Len(sep) - 1) = sep}
  IN  IF hits = {} THEN 0 ELSE CHOOSE i \in hits : \A j \in hits : i <= j

\* str.split(sep): the parts of s between the occurrences of sep, scanning
\* from the left without overlap; a text without sep is its own single part
RECURSIVE Split(_, _)
Split(s, sep) ==
  LET i == Find(s, sep)
  IN  IF i = 0
      THEN <<s>>
      ELSE <<SubSeq(s, 1, i - 1)>> \o Split(SubSeq(s, i + Len(sep), Len(s)), sep)

RECURSIVE LStrip(_)
LStrip(s) ==
  IF s # <<>> /\ Head(s) \in Whitespace THEN LStrip(Tail(s)) ELSE s

RECURSIVE RStrip(_)
RStrip(s) ==
  IF s # <<>> /\ s[Len(s)] \in Whitespace THEN RStrip(SubSeq(s, 1, Len(s) - 1)) ELSE s

\* str.strip(): s without its leading and trailing whitespace
Strip(s) == RStrip(LStrip(s))

----------------------------------------------------------------------------
(* The expression  os.popen(cmd).read().split(': ')[1].strip()  *)

Value(v) == [raised |-> FALSE, val |-> v]

Raised == [raised |-> TRUE, val |-> <<>>]

\* Item1 with the index off by one: parts[0]
Item0(parts) == IF Len(parts) >= 1 THEN Value(parts[1]) ELSE Raised

\* parts[1] of a Python list: the second part, IndexError when there is none
Item1(parts) == IF Len(parts) >= 2 THEN Value(parts[2]) ELSE Raised

\* Parse without the call of strip()
ParseNoStrip(out) == Item1(Split(out, Sep))

\* what the expression evaluates to on the text `out` read from the pipe
Parse(out) ==
  LET item == Item1(Split(out, Sep))
  IN  IF item.raised THEN Raised ELSE Value(Strip(item.val))

----------------------------------------------------------------------------
(* The environment *)

Hostnames == {<<"web-1">>, <<"web-2">>}

Queries == {"instance-id", "availability-zone"}

Unset == [kind |-> "unset", out |-> <<>>, status |-> 0]

Hung == [kind |-> "hung", out |-> <<>>, status |-> 0]

Exited(out, status) == [kind |-> "exited", out |-> out, status |-> status]

\* a command the shell cannot find writes nothing (2>/dev/null) and the
\* shell exits 127; a command that runs may write any text and exit 0 or not
Outcomes ==
  {Exited(s, st) : s \in Strings(MaxLen), st \in {0, 1}} \cup {Exited(<<>>, 127)}

\* a metadata facility whose answers are known from the start
Samples ==
  { Exited(<<>>, 127),
    Exited(<<"a", ":", " ", "a">>, 0),
    Exited(<<"a", ":", " ", "a">>, 1),
    Exited(<<"a">>, 0),
    Hung }

\* the command started by popen either answers as the facility answers, or,
\* when the facility has not been observed yet, may turn out never to end
Popen(m) == IF m.kind = "unset" THEN {m, Hung} ELSE {m}

\* what read() returns from the pipe of a command that ends
Read(m) == IF m.kind = "unset" THEN Outcomes ELSE {m}

----------------------------------------------------------------------------
(* Responses *)

NoResponse == [status |-> 0, ctype |-> "", body |-> [none |-> TRUE]]

\* the f-string of home: the three interpolated <code> elements of the page
Page(h, id, az) == [hostname |-> h, instance_id |-> id, availability_zone |-> az]

HtmlResponse(page) == [status |-> 200, ctype |-> "text/html", body |-> page]

JsonResponse(obj) == [status |-> 200, ctype |-> "application/json", body |-> obj]

\* what the framework answers when an exception leaves a handler
ServerError ==
  [status |-> 500, ctype |-> "text/plain", body |-> [detail |-> "Internal Server Error"]]

\* TryExcept without the except clause: the exception leaves the handler
TryOnly(h, id, az) ==
  IF id.raised \/ az.raised
  THEN ServerError
  ELSE HtmlResponse(Page(h, id.val, az.val))

\* TryExcept with an except clause that resets only the name whose
\* assignment raised
TryExceptEach(h, id, az) ==
  HtmlResponse(Page(h,
                    IF id.raised THEN Sentinel ELSE id.val,
                    IF az.raised THEN Sentinel ELSE az.val))

\* the try/except of home, given the results of the two assignments of the
\* try block (az is Raised when the first assignment raised and the second
\* never ran): any exception sets both names to the sentinel
TryExcept(h, id, az) ==
  IF id.raised \/ az.raised
  THEN HtmlResponse(Page(h, Sentinel, Sentinel))
  ELSE HtmlResponse(Page(h, id.val, az.val))

\* HealthBody with a count of the requests served so far
HealthBodyCounting(h) ==
  [status |-> "healthy", service |-> "terraform-docker-web-server", hostname |-> h,
   served |-> Cardinality({r \in DOMAIN req : req[r].pc = "done"})]

\* HealthBody reporting another status word
HealthBodyOk(h) ==
  [status |-> "ok", service |-> "terraform-docker-web-server", hostname |-> h]

\* the dictionary health returns
HealthBody(h) ==
  [status |-> "healthy", service |-> "terraform-docker-web-server", hostname |-> h]

----------------------------------------------------------------------------
(* Requests *)

Requests == 1..NumRequests

Routes == {"/", "/api/health"}

NewRequest(pc) ==
  [pc |-> pc, route |-> "", hostname |-> <<>>, instance_id |-> Raised,
   spawned |-> {}, resp |-> NoResponse]

\* the event loop is free when no coroutine is inside a blocking call
LoopIdle == \A r \in Requests : req[r].pc \notin {"read1", "read2"}

\* one client of a server on the host web-1, the metadata facility not yet
\* observed
InitOne ==
  /\ hostname = <<"web-1">>
  /\ meta = [q \in Queries |-> Unset]
  /\ req = [r \in Requests |-> NewRequest(IF r = 1 THEN "init" ELSE "none")]

\* NumRequests clients of a server on any host
Init ==
  /\ hostname \in Hostnames
  /\ meta \in [Queries -> Samples]
  /\ req = [r \in Requests |-> NewRequest("init")]

\* the HTTP runtime receives a request for one of the two routes
Arrive(r) ==
  /\ req[r].pc = "init"
  /\ \E route \in Routes : req' = [req EXCEPT ![r].pc = "pending", ![r].route = route]
  /\ UNCHANGED <<hostname, meta>>

\* health(): runs to its return on the event loop
Health(r) ==
  /\ req[r].pc = "pending"
  /\ req[r].route = "/api/health"
  /\ LoopIdle
  /\ req' = [req EXCEPT ![r].pc = "done",
                        ![r].hostname = hostname,
                        ![r].resp = JsonResponse(HealthBody(hostname))]
  /\ UNCHANGED <<hostname, meta>>

\* home(): gethostname(), then popen of the instance-id command; the
\* coroutine stays on the event loop inside read()
HomeStart(r) ==
  /\ req[r].pc = "pending"
  /\ req[r].route = "/"
  /\ LoopIdle
  /\ \E m \in Popen(meta["instance-id"]) :
       meta' = [meta EXCEPT !["instance-id"] = m]
  /\ req' = [req EXCEPT ![r].pc = "read1",
                        ![r].hostname = hostname,
                        ![r].spawned = {"instance-id"}]
  /\ UNCHANGED hostname

\* home(): read() of the instance-id command returns; the text is parsed;
\* an exception goes to the except clause and the page is returned,
\* otherwise the availability-zone command is started
HomeReadId(r) ==
  /\ req[r].pc = "read1"
  /\ meta["instance-id"].kind # "hung"
  /\ \E o \in Read(meta["instance-id"]) :
       LET id == Parse(o.out)
       IN  IF id.raised
           THEN /\ meta' = [meta EXCEPT !["instance-id"] = o]
                /\ req' = [req EXCEPT ![r].pc = "done",
                                      ![r].resp = TryExcept(req[r].hostname, id, Raised)]
           ELSE /\ \E m \in Popen(meta["availability-zone"]) :
                     meta' = [meta EXCEPT !["instance-id"] = o,
                                          !["availability-zone"] = m]
                /\ req' = [req EXCEPT ![r].pc = "read2",
                                      ![r].instance_id = id,
                                      ![r].spawned = @ \cup {"availability-zone"}]
  /\ UNCHANGED hostname

\* home(): read() of the availability-zone command returns; the page is
\* rendered and returned
HomeReadAz(r) ==
  /\ req[r].pc = "read2"
  /\ meta["availability-zone"].kind # "hung"
  /\ \E o \in Read(meta["availability-zone"]) :
       /\ meta' = [meta EXCEPT !["availability-zone"] = o]
       /\ req' = [req EXCEPT ![r].pc = "done",
                             ![r].resp = TryExcept(req[r].hostname,
                                                   req[r].instance_id,
                                                   Parse(o.out))]
  /\ UNCHANGED hostname

Next ==
  \E r \in Requests :
    \/ Arrive(r)
    \/ Health(r)
    \/ HomeStart(r)
    \/ HomeReadId(r)
    \/ HomeReadAz(r)

\* the server with NumRequests clients and a known metadata facility
Spec == Init /\ [][Next]_vars

\* one client, every outcome of the two metadata commands
SpecOne == InitOne /\ [][Next]_vars

----------------------------------------------------------------------------
(* Vocabulary of the properties *)

Done(r) == req[r].pc = "done"

HomeDone(r) == Done(r) /\ req[r].route = "/"

HealthDone(r) == Done(r) /\ req[r].route = "/api/health"

\* the text read from the command of query q
Output(q) == meta[q].out

\* request r started the command of query q and read its output
Observed(r, q) == q \in req[r].spawned /\ meta[q].kind = "exited"

BothSentinel(r) ==
  /\ req[r].resp.body.instance_id = Sentinel
  /\ req[r].resp.body.availability_zone = Sentinel

\* s contains the two characters ': ' somewhere
HasSep(s) == \E i \in 1..(Len(s) - 1) : s[i] = ":" /\ s[i + 1] = " "

\* the key an ec2-metadata command prints before the separator
KeyText == <<"a">>

\* out without the line terminator that ends it, if any
Line(out) ==
  IF out # <<>> /\ out[Len(out)] = NL THEN SubSeq(out, 1, Len(out) - 1) ELSE out

\* what follows `key: ` on the line
LineValue(out) == SubSeq(Line(out), Len(KeyText) + Len(Sep) + 1, Len(Line(out)))

\* out is one line `key: value`: the key, one separator, and a value that
\* holds neither a line break nor a second separator
WellFormed(out) ==
  /\ Len(Line(out)) >= Len(KeyText) + Len(Sep)
  /\ SubSeq(Line(out), 1, Len(KeyText) + Len(Sep)) = KeyText \o Sep
  /\ \A i \in 1..Len(LineValue(out)) : LineValue(out)[i] # NL
  /\ ~HasSep(LineValue(out))

\* f is v with its leading and trailing whitespace removed
IsTrimOf(f, v) ==
  \E i \in 1..(Len(v) + 1), j \in 0..Len(v) :
    /\ f = SubSeq(v, i, j)
    /\ \A k \in 1..(i - 1) : v[k] \in Whitespace
    /\ \A k \in (j + 1)..Len(v) : v[k] \in Whitespace
    /\ f # <<>> => f[1] \notin Whitespace /\ f[Len(f)] \notin Whitespace

\* the handler of r is inside read() on a command that never ends
BlockedOnHung(r) ==
  \/ req[r].pc = "read1" /\ meta["instance-id"].kind = "hung"
  \/ req[r].pc = "read2" /\ meta["availability-zone"].kind = "hung"

----------------------------------------------------------------------------
(* Properties *)

\* C1: every answered GET / carries status 200 and the HTML page, whatever
\* the two metadata commands did (absent, non-zero exit, empty, malformed or
\* well-formed output); no outcome gives another status.
C1_HomeAlways200 ==
  \A r \in Requests :
    HomeDone(r) =>
      /\ req[r].resp.status = 200
      /\ req[r].resp.ctype = "text/html"
      /\ DOMAIN req[r].resp.body = {"hostname", "instance_id", "availability_zone"}
      /\ req[r].resp.body.hostname = hostname

C1_Witness ==
  \E r \in Requests :
    /\ HomeDone(r)
    /\ meta["instance-id"] = Exited(<<>>, 127)
    /\ req[r].resp.status = 200

\* C2: every answered GET /api/health carries status 200 and a JSON object
\* with exactly the keys status, service and hostname, status "healthy" and
\* service "terraform-docker-web-server"; its handler starts no metadata
\* command, whatever the metadata facility does.
C2_HealthAlwaysHealthy ==
  \A r \in Requests :
    HealthDone(r) =>
      /\ req[r].resp.status = 200
      /\ req[r].resp.ctype = "application/json"
      /\ DOMAIN req[r].resp.body = {"status", "service", "hostname"}
      /\ req[r].resp.body.status = "healthy"
      /\ req[r].resp.body.service = "terraform-docker-web-server"
      /\ req[r].resp.body.hostname = hostname
      /\ req[r].spawned = {}

C2_Witness ==
  \E r \in Requests :
    /\ HealthDone(r)
    /\ meta["instance-id"] = Hung
    /\ req[r].resp.body.status = "healthy"

\* C3: when a metadata command GET / ran wrote nothing (the command is
\* absent or unreachable), the page shows the sentinel in both the Instance
\* ID and the Availability Zone field, and nowhere else.
C3_EmptyOutputGivesSentinel ==
  \A r \in Requests :
    (HomeDone(r) /\ \E q \in Queries : Observed(r, q) /\ Output(q) = <<>>) =>
      /\ BothSentinel(r)
      /\ req[r].resp.body.hostname # Sentinel

C3_Witness ==
  \E r \in Requests :
    /\ HomeDone(r)
    /\ Observed(r, "instance-id")
    /\ meta["instance-id"] = Exited(<<>>, 127)
    /\ BothSentinel(r)

\* C4: when both metadata commands wrote a well-formed `key: value` line,
\* each field of the page is the value of its line with the leading and
\* trailing whitespace removed, and not the sentinel.
C4_WellFormedGivesValues ==
  \A r \in Requests :
    (/\ HomeDone(r)
     /\ WellFormed(Output("instance-id"))
     /\ Observed(r, "availability-zone")
     /\ WellFormed(Output("availability-zone"))) =>
      /\ IsTrimOf(req[r].resp.body.instance_id, LineValue(Output("instance-id")))
      /\ IsTrimOf(req[r].resp.body.availability_zone,
                  LineValue(Output("availability-zone")))
      /\ req[r].resp.body.instance_id # Sentinel
      /\ req[r].resp.body.availability_zone # Sentinel

C4_Witness ==
  \E r \in Requests :
    /\ HomeDone(r)
    /\ Output("instance-id") = <<"a", ":", " ", "a">>
    /\ Output("availability-zone") = <<"a", ":", " ", " ">>
    /\ req[r].resp.body.instance_id = <<"a">>
    /\ req[r].resp.body.availability_zone = <<>>

\* C5: when a metadata command GET / ran exited with a non-zero status, the
\* page shows the sentinel in both fields, even when the command wrote a
\* well-formed `key: value` line (texts that are neither empty nor
\* well-formed are the subject of C6).
C5_NonZeroExitGivesSentinel ==
  \A r \in Requests :
    (/\ HomeDone(r)
     /\ \E q \in Queries : Observed(r, q) /\ meta[q].status # 0
     /\ \A q \in Queries :
          Observed(r, q) => (Output(q) = <<>> \/ WellFormed(Output(q)))) =>
      BothSentinel(r)

\* C6: when a metadata command GET / ran wrote a non-empty text that is not
\* one well-formed `key: value` line, the page shows the sentinel in both
\* fields and no fragment of that text.
C6_MalformedGivesSentinel ==
  \A r \in Requests :
    (HomeDone(r) /\ \E q \in Queries :
        Observed(r, q) /\ Output(q) # <<>> /\ ~WellFormed(Output(q))) =>
      BothSentinel(r)

\* C7: while one GET / handler is blocked on a metadata command that does
\* not end, every other request that has arrived can still be dispatched.
C7_OthersNotDelayed ==
  \A r, s \in Requests :
    (BlockedOnHung(r) /\ req[s].pc = "pending") =>
      ENABLED (Health(s) \/ HomeStart(s))

\* C8: a GET / handler waiting for a metadata command can always go on to
\* its response: it is never left inside read() with no step to take.
C8_HomeNeverStuck ==
  \A r \in Requests :
    req[r].pc \in {"read1", "read2"} =>
      ENABLED (HomeReadId(r) \/ HomeReadAz(r))

\* C9: requests are stateless and order-independent: under one environment
\* any two answered requests for the same route carry the same response,
\* whatever ran before them, and GET / and GET /api/health report the same
\* hostname.
C9_Stateless ==
  \A r, s \in Requests :
    /\ (Done(r) /\ Done(s) /\ req[r].route = req[s].route) => req[r].resp = req[s].resp
    /\ (HomeDone(r) /\ HealthDone(s)) =>
         req[r].resp.body.hostname = req[s].resp.body.hostname

C9_Witness ==
  \E r, s \in Requests :
    /\ r # s
    /\ HealthDone(r)
    /\ HomeDone(s)
    /\ req[s].resp.body.instance_id = <<"a">>
    /\ req[r].resp.body.hostname = req[s].resp.body.hostname

\* C10: the sentinel is all-or-nothing: the page never shows a value in one
\* field and the sentinel in the other; when the instance-id text has a
\* separator and the availability-zone text has none, both fields are the
\* sentinel; when the instance-id text has no separator, the
\* availability-zone command is never started.
C10_AllOrNothing ==
  \A r \in Requests :
    HomeDone(r) =>
      /\ (req[r].resp.body.instance_id = Sentinel)
           <=> (req[r].resp.body.availability_zone = Sentinel)
      /\ (/\ HasSep(Output("instance-id"))
          /\ Observed(r, "availability-zone")
          /\ ~HasSep(Output("availability-zone"))) => BothSentinel(r)
      /\ ~HasSep(Output("instance-id")) =>
           /\ req[r].spawned = {"instance-id"}
           /\ meta["availability-zone"] = Unset
           /\ BothSentinel(r)

C10_Witness ==
  \E r \in Requests :
    /\ HomeDone(r)
    /\ Output("instance-id") = <<"a", ":", " ", "a">>
    /\ Observed(r, "availability-zone")
    /\ Output("availability-zone") = <<"a">>
    /\ BothSentinel(r)

====
